---------------------------- MODULE Spec2Model ----------------------------
(***************************************************************************)
(* Model of core/encryption.py: the module-level cache _fernet_instance,   *)
(* _get_fernet(), encrypt() and decrypt(), together with the environment   *)
(* variable APP_MASTER_KEY they read and the module reload the tests use.  *)
(*                                                                         *)
(* A Python str is a sequence of Unicode code points, a bytes object a     *)
(* sequence of numbers 0..255.  str.encode()/bytes.decode() are strict     *)
(* UTF-8, base64.urlsafe_b64encode/urlsafe_b64decode are Python's (the     *)
(* decoder is the non-validating one Fernet calls).                        *)
(*                                                                         *)
(* Fernet is a library; it is modelled by its token format                 *)
(*   urlsafe_b64encode(0x80 || timestamp || IV || ciphertext || HMAC)      *)
(* with the field widths scaled down (TsLen, BlockSize), AES-CBC replaced  *)
(* by a keyed, IV-dependent invertible byte map over PKCS7 padded          *)
(* blocks, and HMAC-SHA256 by an ideal MAC (a tag that determines the      *)
(* signing key and the signed bytes).  os.urandom is modelled as a source  *)
(* of fresh values: no IV is drawn twice.                                  *)
(***************************************************************************)
EXTENDS Integers, Sequences, FiniteSets, TLC

(***************************************************************************)
(* Bounds of the model: the length of a plaintext, the tokens issued, the   *)
(* Fernet objects built, the threads, and the widths in bytes of the       *)
(* timestamp and of a cipher block (the IV is one block).                  *)
(***************************************************************************)
MaxLen == 1
MaxIssued == 2
MaxBuilds == 2
NThreads == 2
TsLen == 1
BlockSize == 2

(***************************************************************************)
(* The 32 of "It must be a 32-byte URL-safe base64-encoded key".           *)
(***************************************************************************)
KeyLen == 32

None == [t |-> "none", v |-> <<>>]
StrVal(s) == [t |-> "str", v |-> s]
BytesVal(b) == [t |-> "bytes", v |-> b]
IntVal(n) == [t |-> "int", v |-> <<n>>]

\* variant of the guard that lets bytes through
IsStrOrBytes(x) == x.t = "str" \/ x.t = "bytes"

\* isinstance(x, str)
IsStr(x) == x.t = "str"

Min(a, b) == IF a < b THEN a ELSE b

(***************************************************************************)
(* str.encode(): strict UTF-8.  A lone surrogate (U+D800..U+DFFF) cannot   *)
(* be encoded and raises UnicodeEncodeError.                               *)
(***************************************************************************)
IsSurrogate(c) == c >= 55296 /\ c <= 57343

Utf8OfCodePoint(c) ==
  IF c < 128 THEN <<c>>
  ELSE IF c < 2048 THEN <<192 + (c \div 64), 128 + (c % 64)>>
  ELSE IF c < 65536
    THEN <<224 + (c \div 4096), 128 + ((c \div 64) % 64), 128 + (c % 64)>>
  ELSE <<240 + (c \div 262144), 128 + ((c \div 4096) % 64),
         128 + ((c \div 64) % 64), 128 + (c % 64)>>

RECURSIVE Utf8Bytes(_)
Utf8Bytes(s) ==
  IF s = <<>> THEN <<>>
  ELSE IF Len(s) = 1 THEN Utf8OfCodePoint(s[1])
  ELSE LET h == Len(s) \div 2
       IN  Utf8Bytes(SubSeq(s, 1, h)) \o Utf8Bytes(SubSeq(s, h + 1, Len(s)))

StrEncode(s) ==
  IF \E i \in 1..Len(s) : IsSurrogate(s[i])
    THEN [ok |-> FALSE, v |-> <<>>]
    ELSE [ok |-> TRUE, v |-> Utf8Bytes(s)]

(***************************************************************************)
(* bytes.decode(): strict UTF-8; an ill-formed sequence raises             *)
(* UnicodeDecodeError.                                                     *)
(***************************************************************************)
IsCont(b) == b >= 128 /\ b <= 191

RECURSIVE Utf8Decode(_, _, _)
Utf8Decode(b, i, acc) ==
  IF i > Len(b) THEN [ok |-> TRUE, v |-> acc]
  ELSE LET b1 == b[i]
           has(n) == i + n <= Len(b) /\ \A j \in 1..n : IsCont(b[i + j])
       IN  IF b1 < 128 THEN Utf8Decode(b, i + 1, Append(acc, b1))
           ELSE IF b1 >= 194 /\ b1 <= 223 /\ has(1)
             THEN Utf8Decode(b, i + 2,
                    Append(acc, (b1 - 192) * 64 + (b[i + 1] - 128)))
           ELSE IF b1 >= 224 /\ b1 <= 239 /\ has(2)
                   /\ (b1 = 224 => b[i + 1] >= 160)
                   /\ (b1 = 237 => b[i + 1] <= 159)
             THEN Utf8Decode(b, i + 3,
                    Append(acc, (b1 - 224) * 4096 + (b[i + 1] - 128) * 64
                                + (b[i + 2] - 128)))
           ELSE IF b1 >= 240 /\ b1 <= 244 /\ has(3)
                   /\ (b1 = 240 => b[i + 1] >= 144)
                   /\ (b1 = 244 => b[i + 1] <= 143)
             THEN Utf8Decode(b, i + 4,
                    Append(acc, (b1 - 240) * 262144 + (b[i + 1] - 128) * 4096
                                + (b[i + 2] - 128) * 64 + (b[i + 3] - 128)))
           ELSE [ok |-> FALSE, v |-> <<>>]

\* ASCII bytes decode to themselves
BytesDecode(b) ==
  IF \A i \in 1..Len(b) : b[i] < 128
    THEN [ok |-> TRUE, v |-> b]
    ELSE Utf8Decode(b, 1, <<>>)

(***************************************************************************)
(* base64.urlsafe_b64encode: three bytes make four characters of the URL   *)
(* safe alphabet A-Z a-z 0-9 - _ ; a tail of one or two bytes makes two or *)
(* three characters and is padded with '='.                                *)
(***************************************************************************)
PadChar == 61

B64Char(d) ==
  IF d < 26 THEN 65 + d
  ELSE IF d < 52 THEN 97 + (d - 26)
  ELSE IF d < 62 THEN 48 + (d - 52)
  ELSE IF d = 62 THEN 45
  ELSE 95

B64Encode(b) ==
  LET n == Len(b)
      at(i) == IF i <= n THEN b[i] ELSE 0
  IN  [j \in 1..(4 * ((n + 2) \div 3)) |->
         LET g == 3 * ((j - 1) \div 4)
             r == (j - 1) % 4
         IN  IF r = 0 THEN B64Char(at(g + 1) \div 4)
             ELSE IF r = 1
               THEN B64Char((at(g + 1) % 4) * 16 + (at(g + 2) \div 16))
             ELSE IF r = 2
               THEN IF g + 2 > n THEN PadChar
                    ELSE B64Char((at(g + 2) % 16) * 4 + (at(g + 3) \div 64))
             ELSE IF g + 3 > n THEN PadChar ELSE B64Char(at(g + 3) % 64)]

(***************************************************************************)
(* base64.urlsafe_b64decode: '-' and '_' are translated to '+' and '/',    *)
(* then the non-validating decoder runs: it skips every byte outside the   *)
(* alphabet, stops at a completed pad sequence, accepts any value in the   *)
(* unused low bits of a tail, and raises binascii.Error when the data      *)
(* characters do not end on a group boundary.                              *)
(***************************************************************************)
B64Digit(c) ==
  IF c >= 65 /\ c <= 90 THEN c - 65
  ELSE IF c >= 97 /\ c <= 122 THEN c - 71
  ELSE IF c >= 48 /\ c <= 57 THEN c + 4
  ELSE IF c = 43 \/ c = 45 THEN 62
  ELSE IF c = 47 \/ c = 95 THEN 63
  ELSE 64

IsB64Data(c) == B64Digit(c) < 64
IsB64Relevant(c) == c = PadChar \/ IsB64Data(c)
IsNotPad(c) == c # PadChar

\* The scan of binascii.a2b_base64 over r, the input without the bytes it
\* skips: a pad character ends the scan when the group holds two or three
\* characters and the pads seen since the last data character complete it.
B64StopAt(r) ==
  LET pads == {i \in 1..Len(r) : r[i] = PadChar}
      quad(i) == ((i - 1) - Cardinality({j \in pads : j < i})) % 4
      run(i) == Cardinality({j \in pads : j <= i /\ \A k \in j..i : k \in pads})
      stops == {i \in pads : quad(i) >= 2 /\ quad(i) + run(i) >= 4}
  IN  IF stops = {} THEN 0 ELSE CHOOSE i \in stops : \A j \in stops : i <= j

B64Decode(s) ==
  LET r == SelectSeq(s, IsB64Relevant)
      stop == B64StopAt(r)
      d == SelectSeq(IF stop = 0 THEN r ELSE SubSeq(r, 1, stop - 1), IsNotPad)
      m == Len(d)
      dg(i) == B64Digit(d[i])
      n == 3 * (m \div 4) + (IF m % 4 = 0 THEN 0 ELSE (m % 4) - 1)
  IN  IF stop = 0 /\ m % 4 # 0 THEN [ok |-> FALSE, v |-> <<>>]
      ELSE [ok |-> TRUE,
            v |-> [k \in 1..n |->
                     LET g == 4 * ((k - 1) \div 3)
                         q == (k - 1) % 3
                     IN  IF q = 0 THEN dg(g + 1) * 4 + (dg(g + 2) \div 16)
                         ELSE IF q = 1
                           THEN (dg(g + 2) % 16) * 16 + (dg(g + 3) \div 4)
                         ELSE (dg(g + 3) % 4) * 64 + dg(g + 4)]]

(***************************************************************************)
(* Fernet (cryptography.fernet).  A key is the URL-safe base64 text of     *)
(* KeyLen bytes: the first half signs, the second half encrypts.           *)
(***************************************************************************)
FernetVersion == 128

RECURSIVE SumBytes(_)
SumBytes(b) ==
  IF b = <<>> THEN 0
  ELSE IF Len(b) = 1 THEN b[1] % 256
  ELSE LET h == Len(b) \div 2
       IN  (SumBytes(SubSeq(b, 1, h)) + SumBytes(SubSeq(b, h + 1, Len(b)))) % 256

\* The two halves of a key, each as the one number the cipher and the MAC
\* of this model are keyed with.
SigningKey(key) == SumBytes(SubSeq(key, 1, KeyLen \div 2))
EncryptionKey(key) == (3 * SumBytes(SubSeq(key, KeyLen \div 2 + 1, KeyLen))) % 256

\* n as a big-endian number of w bytes (int.to_bytes)
RECURSIVE ToBytes(_, _)
ToBytes(n, w) == IF w = 0 THEN <<>> ELSE Append(ToBytes(n \div 256, w - 1), n % 256)

Slice(s, from, to) == IF from > to \/ from > Len(s) THEN <<>> ELSE SubSeq(s, from, Min(to, Len(s)))

(***************************************************************************)
(* PKCS7: padding adds 1..BlockSize bytes, each holding their number.      *)
(***************************************************************************)
Pkcs7Pad(p) ==
  LET n == BlockSize - (Len(p) % BlockSize)
  IN  p \o [i \in 1..n |-> n]

Pkcs7Unpad(p) ==
  IF Len(p) = 0 THEN [ok |-> FALSE, v |-> <<>>]
  ELSE LET n == p[Len(p)]
       IN  IF n = 0 \/ n > BlockSize \/ n > Len(p)
                \/ \E i \in (Len(p) - n + 1)..Len(p) : p[i] # n
             THEN [ok |-> FALSE, v |-> <<>>]
             ELSE [ok |-> TRUE, v |-> SubSeq(p, 1, Len(p) - n)]

(***************************************************************************)
(* The block cipher in CBC mode, as a keyed invertible map: each byte is   *)
(* shifted by the key and by the byte one block before it (the IV for the  *)
(* first block).                                                           *)
(***************************************************************************)
RECURSIVE CbcEncrypt(_, _, _, _)
CbcEncrypt(k, iv, p, done) ==
  IF Len(done) = Len(p) THEN done
  ELSE LET i == Len(done) + 1
           x == IF i <= BlockSize THEN iv[i] ELSE done[i - BlockSize]
       IN  CbcEncrypt(k, iv, p, Append(done, (p[i] + x + k) % 256))

CbcDecrypt(k, iv, c) ==
  [i \in 1..Len(c) |->
     LET x == IF i <= BlockSize THEN iv[i] ELSE c[i - BlockSize]
     IN  (c[i] + 512 - x - k) % 256]

(***************************************************************************)
(* The MAC.  Its tag holds the signed bytes, closed by a 1 and filled with *)
(* zeros, each shifted by the signing key: two different messages, or two  *)
(* different signing keys, never give the same tag.                        *)
(***************************************************************************)
MaxPadded == BlockSize * ((2 * MaxLen) \div BlockSize + 1)
MaxSigned == 1 + TsLen + BlockSize + MaxPadded
MacLen == MaxSigned + 2

Hmac(k, msg) ==
  [i \in 1..MacLen |->
     LET m == IF i <= Len(msg) THEN msg[i] ELSE IF i = Len(msg) + 1 THEN 1 ELSE 0
     IN  (m + k + i) % 256]

(***************************************************************************)
(* Fernet(key): the constructor decodes the key and checks its length;     *)
(* binascii.Error and the length check both end in ValueError.             *)
(***************************************************************************)
FernetInit(key) ==
  LET d == B64Decode(key)
  IN  IF d.ok /\ Len(d.v) = KeyLen
        THEN [ok |-> TRUE, v |-> d.v]
        ELSE [ok |-> FALSE, v |-> <<>>]

(***************************************************************************)
(* Fernet.encrypt(data) at time now with the IV os.urandom returned.       *)
(***************************************************************************)
FernetToken(key, data, now, iv) ==
  LET ek == EncryptionKey(key)
      sk == SigningKey(key)
      ct == CbcEncrypt(ek, iv, Pkcs7Pad(data), <<>>)
      basic == <<FernetVersion>> \o ToBytes(now, TsLen) \o iv \o ct
  IN  B64Encode(basic \o Hmac(sk, basic))

\* variant: a constant IV in place of os.urandom
FernetEncryptFixedIV(key, data, now, iv) ==
  FernetToken(key, data, now, ToBytes(0, BlockSize))

FernetEncrypt(key, data, now, iv) == FernetToken(key, data, now, iv)

(***************************************************************************)
(* Fernet.decrypt(token) without ttl: InvalidToken (ok = FALSE) when the   *)
(* token is not base64, has the wrong version, is too short, fails the     *)
(* signature check, or its ciphertext or padding is malformed.             *)
(***************************************************************************)
InvalidToken == [ok |-> FALSE, v |-> <<>>]

\* the ciphertext of a token whose signature has been verified
FernetOpen(key, iv, ct) ==
  IF Len(iv) # BlockSize \/ Len(ct) % BlockSize # 0 THEN InvalidToken
  ELSE Pkcs7Unpad(CbcDecrypt(EncryptionKey(key), iv, ct))

\* the decoded token data, of n bytes: version, length and signature checks
FernetVerify(key, data, n) ==
  IF n = 0 \/ data[1] # FernetVersion THEN InvalidToken
  ELSE IF n < 1 + TsLen THEN InvalidToken
  ELSE IF Slice(data, IF n > MacLen THEN n - MacLen + 1 ELSE 1, n)
            # Hmac(SigningKey(key), Slice(data, 1, n - MacLen))
    THEN InvalidToken
  ELSE FernetOpen(key, Slice(data, 2 + TsLen, 1 + TsLen + BlockSize),
                  Slice(data, 2 + TsLen + BlockSize, n - MacLen))

\* d is what base64.urlsafe_b64decode gives for the token
FernetDecoded(key, d) ==
  IF ~d.ok THEN InvalidToken ELSE FernetVerify(key, d.v, Len(d.v))

FernetDecrypt(key, token) == FernetDecoded(key, B64Decode(token))


(***************************************************************************)
(* The state.                                                              *)
(*   env               os.environ["APP_MASTER_KEY"]: None when unset       *)
(*   _fernet_instance  the module-level cache                              *)
(*   nbuilt            number of Fernet objects constructed so far         *)
(*   issued            the tokens encrypt has returned, in order           *)
(*   last              the call of encrypt/decrypt the last step made, and *)
(*                     what it did (NoCall after any other step)           *)
(*   failed            whether a call has failed with a key error since    *)
(*                     the module was loaded                               *)
(*   pc, tkey, tnew, tinst   the threads of the concurrent specification   *)
(***************************************************************************)
VARIABLES env, _fernet_instance, nbuilt, issued, last, failed,
          pc, tkey, tnew, tinst

vars == <<env, _fernet_instance, nbuilt, issued, last, failed,
          pc, tkey, tnew, tinst>>

Threads == 1..NThreads

Instance(id, key) == [t |-> "Fernet", v |-> key, id |-> id]

(***************************************************************************)
(* What a call ends with: a returned value or a raised exception.  site is *)
(* the line of encryption.py that raises (or whose call raises).           *)
(***************************************************************************)
NoDetail == ""
Return(x) == [kind |-> "return", site |-> 0, msg |-> "", detail |-> NoDetail, v |-> x]
Raise(kind, site, msg, detail) ==
  [kind |-> kind, site |-> site, msg |-> msg, detail |-> detail, v |-> None]

EncryptTypeError ==
  Raise("TypeError", 32, "Data to encrypt must be a string.", NoDetail)
DecryptTypeError ==
  Raise("TypeError", 40, "Data to decrypt must be a string.", NoDetail)
KeyNotSetError ==
  Raise("ValueError", 19,
        "APP_MASTER_KEY environment variable not set. Cannot perform encryption/decryption.",
        NoDetail)
\* variant: the error of Fernet(key) left to propagate from line 23
UnwrappedKeyError(detail) == Raise("ValueError", 23, detail, NoDetail)

InvalidKeyError(detail) ==
  Raise("ValueError", 25,
        "Invalid APP_MASTER_KEY. It must be a 32-byte URL-safe base64-encoded key. Details: ",
        detail)
\* variant: InvalidToken swallowed, an empty text returned
CannotDecryptSwallowed == Return(StrVal(<<>>))

\* variant: the token error raised with the message of line 19
CannotDecryptSameMessage ==
  Raise("ValueError", 49,
        "APP_MASTER_KEY environment variable not set. Cannot perform encryption/decryption.",
        NoDetail)

CannotDecryptError ==
  Raise("ValueError", 49,
        "Cannot decrypt data: The token is invalid or has been tampered with.",
        NoDetail)
\* str.encode() / bytes.decode() failing inside encrypt or decrypt: not caught
UnicodeEncodeError(site) ==
  Raise("UnicodeEncodeError", site, "'utf-8' codec can't encode character", NoDetail)
UnicodeDecodeError(site) ==
  Raise("UnicodeDecodeError", site, "'utf-8' codec can't decode byte", NoDetail)

\* the two errors _get_fernet raises
IsKeyError(o) == o.site = 19 \/ o.site = 25

FernetKeyDetail == "Fernet key must be 32 url-safe base64-encoded bytes."
SurrogateDetail == "'utf-8' codec can't encode character: surrogates not allowed"

(***************************************************************************)
(* _get_fernet(): cache is _fernet_instance and e the environment value at *)
(* the call, nb the number of Fernet objects built before it.  The result  *)
(* holds the cache after the call, the exception if one is raised, and     *)
(* whether the call read the environment and invoked Fernet(key).          *)
(***************************************************************************)
\* variant: no cache, every call initialises again
CacheHitNever(cache) == FALSE

\* if _fernet_instance is None: (negated)
CacheHit(cache) == cache # None

\* variant: only the empty value counts as missing
KeyMissingOnlyEmpty(e) == e # None /\ e.v = <<>>

\* if not master_key:
KeyMissing(e) == e = None \/ e.v = <<>>

\* variant: a fallback instance cached when initialisation fails
CacheOnFailureFallback == [t |-> "Fernet", v |-> [i \in 1..KeyLen |-> 0], id |-> 0]

\* what _fernet_instance holds after a failed initialisation: no path that
\* raises assigns it
CacheOnFailure == None

\* _fernet_instance = Fernet(key) and the except clause, f being what
\* Fernet(key) gives
NewFernet(f, nb) ==
  IF ~f.ok
    THEN [cache |-> CacheOnFailure, raised |-> TRUE,
          err |-> InvalidKeyError(FernetKeyDetail),
          readEnv |-> TRUE, ctor |-> TRUE]
  ELSE [cache |-> Instance(nb + 1, f.v), raised |-> FALSE,
        err |-> Return(None), readEnv |-> TRUE, ctor |-> TRUE]

\* the try block, key being what master_key.encode() gives
TryFernet(key, nb) ==
  IF ~key.ok
    THEN [cache |-> CacheOnFailure, raised |-> TRUE,
          err |-> InvalidKeyError(SurrogateDetail),
          readEnv |-> TRUE, ctor |-> FALSE]
  ELSE NewFernet(FernetInit(key.v), nb)

_get_fernet(cache, e, nb) ==
  IF CacheHit(cache)
    THEN [cache |-> cache, raised |-> FALSE, err |-> Return(None),
          readEnv |-> FALSE, ctor |-> FALSE]
  ELSE IF KeyMissing(e)
    THEN [cache |-> CacheOnFailure, raised |-> TRUE, err |-> KeyNotSetError,
          readEnv |-> TRUE, ctor |-> FALSE]
  ELSE TryFernet(StrEncode(e.v), nb)

\* how a call ends once _get_fernet has returned g
Done(out, g, crypto) ==
  [out |-> out, cache |-> g.cache, readEnv |-> g.readEnv, ctor |-> g.ctor,
   crypto |-> crypto]

(***************************************************************************)
(* encrypt(data), at time now, with iv the bytes os.urandom returns.       *)
(***************************************************************************)
\* return fernet.encrypt(data.encode()).decode(), g being what _get_fernet
\* gives and b what data.encode() gives
EncryptWith(g, b, now, iv) ==
  IF g.raised THEN Done(g.err, g, FALSE)
  ELSE IF ~b.ok THEN Done(UnicodeEncodeError(35), g, FALSE)
  ELSE Done(Return(StrVal(BytesDecode(FernetEncrypt(g.cache.v, b.v, now, iv)).v)),
            g, TRUE)

encrypt(data, cache, e, nb, now, iv) ==
  IF ~IsStr(data)
    THEN [out |-> EncryptTypeError, cache |-> cache,
          readEnv |-> FALSE, ctor |-> FALSE, crypto |-> FALSE]
  ELSE EncryptWith(_get_fernet(cache, e, nb), StrEncode(data.v), now, iv)

(***************************************************************************)
(* decrypt(encrypted_data)                                                 *)
(***************************************************************************)
\* variant: the bytes decoded as Latin-1
DecodeTextLatin1(b) == [ok |-> TRUE, v |-> b]

\* .decode() of the decrypted bytes
DecodeText(b) == BytesDecode(b)

\* the .decode() of line 44, s being what it gives
DecodedOutcome(s) ==
  IF ~s.ok THEN UnicodeDecodeError(44) ELSE Return(StrVal(s.v))

\* the try/except of lines 43-49, p being what fernet.decrypt gives
DecryptOutcome(p) ==
  IF ~p.ok THEN CannotDecryptError ELSE DecodedOutcome(DecodeText(p.v))

\* lines 43-49, g being what _get_fernet gives and b what
\* encrypted_data.encode() gives
DecryptWith(g, b) ==
  IF g.raised THEN Done(g.err, g, FALSE)
  ELSE IF ~b.ok THEN Done(UnicodeEncodeError(44), g, FALSE)
  ELSE Done(DecryptOutcome(FernetDecrypt(g.cache.v, b.v)), g, TRUE)

decrypt(encrypted_data, cache, e, nb) ==
  IF ~IsStr(encrypted_data)
    THEN [out |-> DecryptTypeError, cache |-> cache,
          readEnv |-> FALSE, ctor |-> FALSE, crypto |-> FALSE]
  ELSE DecryptWith(_get_fernet(cache, e, nb), StrEncode(encrypted_data.v))

(***************************************************************************)
(* Inputs.                                                                 *)
(***************************************************************************)
\* 'a', 'e' with an acute accent (two bytes in UTF-8), a lone surrogate
TextChars == {97, 233, 55296}
Plaintexts == UNION {[1..n -> TextChars] : n \in 0..MaxLen}

\* 12345, b"some bytes", None
NonText == {IntVal(12345),
            BytesVal(<<115, 111, 109, 101, 32, 98, 121, 116, 101, 115>>),
            None}

Key1Bytes == [i \in 1..KeyLen |-> 1]
Key2Bytes == [i \in 1..KeyLen |-> 2]
Key1 == B64Encode(Key1Bytes)
Key2 == B64Encode(Key2Bytes)
\* Key1 followed by a line feed
Key1Newline == Key1 \o <<10>>
\* "this-is-not-a-base64-key"
NotBase64Key == <<116, 104, 105, 115, 45, 105, 115, 45, 110, 111, 116, 45, 97, 45, 98, 97, 115, 101, 54, 52, 45, 107, 101, 121>>
\* a value holding a byte the environment could not decode (surrogateescape)
UndecodableKey == <<56448>>
KeyValues == {Key1, Key2, Key1Newline, NotBase64Key, UndecodableKey, <<>>}

\* int(time.time()): every call falls in the same second, the case in which
\* only the IV tells two tokens of one plaintext apart
Times == {0}
IVs == {ToBytes(n, BlockSize) : n \in 1..MaxIssued}
UsedIVs == {issued[i].iv : i \in 1..Len(issued)}

\* "gAAAAABm_..."
LooksLikeToken == <<103, 65, 65, 65, 65, 65, 66, 109, 95, 46, 46, 46>>
\* encrypted_text[:-1] + 'Z'
LastCharZ(t) == IF t = <<>> THEN <<90>> ELSE [t EXCEPT ![Len(t)] = 90]
EncryptArgs == {StrVal(s) : s \in Plaintexts} \cup NonText
DecryptArgs ==
  {StrVal(issued[i].token) : i \in 1..Len(issued)}
    \cup {StrVal(LastCharZ(issued[i].token)) : i \in 1..Len(issued)}
    \cup {StrVal(LooksLikeToken)} \cup NonText

\* cached: whether _fernet_instance was set when the call began
NoCall == [op |-> "none", arg |-> None, out |-> Return(None), cached |-> FALSE,
           readEnv |-> FALSE, ctor |-> FALSE, crypto |-> FALSE]
Call(op, arg, r) == [op |-> op, arg |-> arg, out |-> r.out,
                     cached |-> _fernet_instance # None,
                     readEnv |-> r.readEnv, ctor |-> r.ctor, crypto |-> r.crypto]

ThreadVars == <<pc, tkey, tnew, tinst>>

Init ==
  /\ env \in {None} \cup {StrVal(k) : k \in KeyValues}
  /\ _fernet_instance = None
  /\ nbuilt = 0
  /\ issued = <<>>
  /\ last = NoCall
  /\ failed = FALSE
  /\ pc = [t \in Threads |-> "idle"]
  /\ tkey = [t \in Threads |-> None]
  /\ tnew = [t \in Threads |-> None]
  /\ tinst = [t \in Threads |-> None]

(***************************************************************************)
(* The environment and the module reload of the tests.                     *)
(***************************************************************************)
\* os.environ["APP_MASTER_KEY"] = k
SetEnv(k) ==
  /\ env' = StrVal(k)
  /\ last' = NoCall
  /\ UNCHANGED <<_fernet_instance, nbuilt, issued, failed, ThreadVars>>

\* del os.environ["APP_MASTER_KEY"]
UnsetEnv ==
  /\ env' = None
  /\ last' = NoCall
  /\ UNCHANGED <<_fernet_instance, nbuilt, issued, failed, ThreadVars>>

\* importlib.reload(encryption): the module body runs again
Reload ==
  /\ nbuilt < MaxBuilds
  /\ _fernet_instance' = None
  /\ last' = NoCall
  /\ failed' = FALSE
  /\ UNCHANGED <<env, nbuilt, issued, ThreadVars>>

(***************************************************************************)
(* One whole call of encrypt and of decrypt.                               *)
(***************************************************************************)
Encrypt(data, now, iv) ==
  \E r \in {encrypt(data, _fernet_instance, env, nbuilt, now, iv)} :
      /\ r.out.kind = "return" => Len(issued) < MaxIssued
      /\ _fernet_instance' = r.cache
      /\ nbuilt' = IF r.cache # _fernet_instance THEN nbuilt + 1 ELSE nbuilt
      /\ issued' = IF r.out.kind = "return"
                     THEN Append(issued, [pt |-> data.v, token |-> r.out.v.v,
                                          key |-> r.cache.v, iv |-> iv])
                     ELSE issued
      /\ last' = Call("encrypt", data, r)
      /\ failed' = (failed \/ IsKeyError(r.out))
      /\ UNCHANGED <<env, ThreadVars>>

Decrypt(encrypted_data) ==
  \E r \in {decrypt(encrypted_data, _fernet_instance, env, nbuilt)} :
      /\ _fernet_instance' = r.cache
      /\ nbuilt' = IF r.cache # _fernet_instance THEN nbuilt + 1 ELSE nbuilt
      /\ last' = Call("decrypt", encrypted_data, r)
      /\ failed' = (failed \/ IsKeyError(r.out))
      /\ UNCHANGED <<env, issued, ThreadVars>>

EncryptCall == \E data \in EncryptArgs, now \in Times, iv \in IVs \ UsedIVs :
                 Encrypt(data, now, iv)
DecryptCall == \E encrypted_data \in DecryptArgs : Decrypt(encrypted_data)
SetEnvCall == \E k \in KeyValues : SetEnv(k)

Next ==
  \/ SetEnvCall
  \/ UnsetEnv
  \/ Reload
  \/ EncryptCall
  \/ DecryptCall

Spec == Init /\ [][Next]_vars

(***************************************************************************)
(* Decrypting a token with one character replaced.  A decrypt changes      *)
(* nothing but last, so each behaviour of SpecTamper makes its calls of    *)
(* encrypt and then one decrypt of a tampered token, as the test does.     *)
(***************************************************************************)
B64Alphabet == {B64Char(d) : d \in 0..63}
\* the alphabet, '=', '+', '/', '!', a non-ASCII character, a lone surrogate
ReplacementChars == B64Alphabet \cup {PadChar, 43, 47, 33, 233, 55296}

Replaced(t, p, c) == [t EXCEPT ![p] = c]

TamperedDecrypt ==
  \E i \in 1..Len(issued) :
    \E p \in 1..Len(issued[i].token), c \in ReplacementChars :
      /\ c # issued[i].token[p]
      /\ Decrypt(StrVal(Replaced(issued[i].token, p, c)))

EncryptText == \E s \in Plaintexts, now \in Times, iv \in IVs \ UsedIVs :
                 Encrypt(StrVal(s), now, iv)

InitTamper == Init /\ env = StrVal(Key1)

NextTamper ==
  \/ last.op # "decrypt" /\ EncryptText
  \/ last.op # "decrypt" /\ TamperedDecrypt

SpecTamper == InitTamper /\ [][NextTamper]_vars

(***************************************************************************)
(* Threads making their first call at the same time.  Each thread runs     *)
(* _get_fernet() for a text argument, one step per read or write of the    *)
(* shared state: the test of line 14, os.getenv of line 15, Fernet(key) of *)
(* line 23, the assignment of line 23, the read of line 27.                *)
(***************************************************************************)
MainVars == <<issued, last, failed>>

\* encrypt/decrypt called with a str: the type guard passes
T_Call(t) ==
  /\ pc[t] = "idle"
  /\ pc' = [pc EXCEPT ![t] = "check"]
  /\ UNCHANGED <<env, _fernet_instance, nbuilt, tkey, tnew, tinst, MainVars>>

\* if _fernet_instance is None:
T_Check(t) ==
  /\ pc[t] = "check"
  /\ pc' = [pc EXCEPT ![t] = IF _fernet_instance = None THEN "getenv" ELSE "return"]
  /\ UNCHANGED <<env, _fernet_instance, nbuilt, tkey, tnew, tinst, MainVars>>

\* master_key = os.getenv("APP_MASTER_KEY"); if not master_key: raise
T_GetEnv(t) ==
  /\ pc[t] = "getenv"
  /\ tkey' = [tkey EXCEPT ![t] = env]
  /\ pc' = [pc EXCEPT ![t] = IF KeyMissing(env) THEN "raised" ELSE "construct"]
  /\ UNCHANGED <<env, _fernet_instance, nbuilt, tnew, tinst, MainVars>>

\* Fernet(master_key.encode()), not yet assigned
T_Construct(t) ==
  /\ pc[t] = "construct"
  /\ \E g \in {_get_fernet(None, tkey[t], nbuilt)} :
         /\ tnew' = [tnew EXCEPT ![t] = g.cache]
         /\ nbuilt' = IF g.raised THEN nbuilt ELSE nbuilt + 1
         /\ pc' = [pc EXCEPT ![t] = IF g.raised THEN "raised" ELSE "store"]
  /\ UNCHANGED <<env, _fernet_instance, tkey, tinst, MainVars>>

\* _fernet_instance = <the new object>
T_Store(t) ==
  /\ pc[t] = "store"
  /\ _fernet_instance' = tnew[t]
  /\ pc' = [pc EXCEPT ![t] = "return"]
  /\ UNCHANGED <<env, nbuilt, tkey, tnew, tinst, MainVars>>

\* return _fernet_instance
T_Return(t) ==
  /\ pc[t] = "return"
  /\ tinst' = [tinst EXCEPT ![t] = _fernet_instance]
  /\ pc' = [pc EXCEPT ![t] = "done"]
  /\ UNCHANGED <<env, _fernet_instance, nbuilt, tkey, tnew, MainVars>>

\* the configuration changed by another part of the process
T_SetEnv == \E k \in {Key1, Key2} : SetEnv(k)

NextConc ==
  \/ \E t \in Threads : T_Call(t)
  \/ \E t \in Threads : T_Check(t)
  \/ \E t \in Threads : T_GetEnv(t)
  \/ \E t \in Threads : T_Construct(t)
  \/ \E t \in Threads : T_Store(t)
  \/ \E t \in Threads : T_Return(t)
  \/ T_SetEnv

SpecConc == Init /\ [][NextConc]_vars

(***************************************************************************)
(* The properties.  The vocabulary of the specification is spelled out     *)
(* here on the recorded call, independently of the definitions above.      *)
(***************************************************************************)
IsText(x) == x.t = "str"
WellFormedText(s) == \A i \in 1..Len(s) : s[i] < 55296 \/ s[i] > 57343
Succeeded(o) == o.kind = "return"

MissingMasterKey(o) == o.kind = "ValueError" /\ o.site = 19
InvalidMasterKey(o) == o.kind = "ValueError" /\ o.site = 25
TamperedOrInvalidToken(o) ==
  /\ o.kind = "ValueError"
  /\ o.site = 49
  /\ o.msg = "Cannot decrypt data: The token is invalid or has been tampered with."
InvalidInputKind(o) == o.kind = "TypeError" /\ o.site \in {32, 40}
KeyFailure(o) == MissingMasterKey(o) \/ InvalidMasterKey(o)

\* e is the URL-safe base64 text of exactly KeyLen bytes
StrictKey(e) ==
  /\ e # None
  /\ WellFormedText(e.v)
  /\ LET d == B64Decode(StrEncode(e.v).v)
     IN  d.ok /\ Len(d.v) = KeyLen /\ B64Encode(d.v) = e.v

\* e is a value base64.urlsafe_b64decode turns into exactly KeyLen bytes
AcceptedKey(e) ==
  /\ e # None
  /\ WellFormedText(e.v)
  /\ LET d == B64Decode(StrEncode(e.v).v)
     IN  d.ok /\ Len(d.v) = KeyLen

TextCall == last.op # "none" /\ IsText(last.arg)
\* the call recorded in last decrypted token i with the instance that made it
DecryptOfIssued(i) ==
  /\ last.op = "decrypt"
  /\ last.arg = StrVal(issued[i].token)
  /\ _fernet_instance # None
  /\ _fernet_instance.v = issued[i].key

\* C1 (as amended): with a valid key configured, encrypt of a text string
\* that UTF-8 can encode (no lone surrogate) returns a text string other
\* than its argument, and decrypt of that result returns the argument.
C1_RoundTrip ==
  /\ (last.op = "encrypt" /\ IsText(last.arg) /\ StrictKey(env)
        /\ WellFormedText(last.arg.v))
     => (Succeeded(last.out) /\ IsText(last.out.v) /\ last.out.v # last.arg)
  /\ \A i \in 1..Len(issued) :
       (DecryptOfIssued(i) /\ StrictKey(env))
       => last.out = Return(StrVal(issued[i].pt))

\* C1 as stated: the same for every text string
C1_RoundTripEveryString ==
  (last.op = "encrypt" /\ IsText(last.arg) /\ StrictKey(env))
  => (Succeeded(last.out) /\ IsText(last.out.v) /\ last.out.v # last.arg)

C1_Witness ==
  \E i \in 1..Len(issued) :
    /\ DecryptOfIssued(i) /\ StrictKey(env)
    /\ issued[i].pt = <<233>>
    /\ last.out = Return(StrVal(<<233>>))

\* C3: when no master key is configured and none is cached, encrypt and
\* decrypt of a text argument fail with MissingMasterKey (ValueError, line
\* 19), whatever the argument, before any Fernet object is constructed and
\* before any cryptographic operation; nothing is cached.
C3_MissingKey ==
  (TextCall /\ env = None /\ ~last.cached)
  => /\ MissingMasterKey(last.out)
     /\ last.out.msg =
          "APP_MASTER_KEY environment variable not set. Cannot perform encryption/decryption."
     /\ last.readEnv /\ ~last.ctor /\ ~last.crypto
     /\ _fernet_instance = None

C3_Witness ==
  \E i \in 1..Len(issued) :
    /\ last.op = "decrypt" /\ last.arg = StrVal(issued[i].token)
    /\ env = None /\ ~last.cached
    /\ MissingMasterKey(last.out)

\* C4 (as amended): with nothing cached, a call with a text argument fails
\* with InvalidMasterKey (ValueError, line 25) for every configured value
\* that is not empty and that base64.urlsafe_b64decode does not turn into
\* exactly 32 bytes, and caches nothing; the empty value fails with
\* MissingMasterKey; every value the decoder does turn into 32 bytes is
\* accepted and an instance is cached.
C4_MalformedKey ==
  (TextCall /\ ~last.cached /\ env # None)
  => /\ (env.v # <<>> /\ ~AcceptedKey(env))
          => (InvalidMasterKey(last.out) /\ _fernet_instance = None /\ ~last.crypto)
     /\ env.v = <<>> => (MissingMasterKey(last.out) /\ _fernet_instance = None)
     /\ AcceptedKey(env) => (~KeyFailure(last.out) /\ _fernet_instance # None)

\* C4 as stated: every present value that is not the URL-safe base64 text of
\* exactly 32 bytes gives InvalidMasterKey
C4_EveryMalformedKeyInvalid ==
  (TextCall /\ ~last.cached /\ env # None /\ ~StrictKey(env))
  => InvalidMasterKey(last.out)

C4_Witness ==
  /\ last.op = "encrypt" /\ IsText(last.arg) /\ ~last.cached
  /\ env = StrVal(NotBase64Key)
  /\ InvalidMasterKey(last.out)
  /\ last.ctor

\* C5: encrypt and decrypt of an argument that is not a text string raise
\* TypeError (InvalidInputKind), whether or not a key is configured or an
\* instance cached; the call does not read the configuration, constructs
\* nothing, does no cryptographic work and leaves the cache as it was.
C5_TypeGuard ==
  [][(last'.op # "none" /\ ~IsText(last'.arg))
       => /\ InvalidInputKind(last'.out)
          /\ last'.out.site = (IF last'.op = "encrypt" THEN 32 ELSE 40)
          /\ ~last'.readEnv /\ ~last'.ctor /\ ~last'.crypto
          /\ _fernet_instance' = _fernet_instance
          /\ nbuilt' = nbuilt]_vars

C5_Witness ==
  /\ last.op = "decrypt" /\ last.arg.t = "bytes"
  /\ InvalidInputKind(last.out)
  /\ env = None /\ _fernet_instance = None

\* C7: once an instance is cached, every later call uses it without reading
\* the configuration or constructing anything, a change of the configuration
\* leaves it in place, and tokens it made still decrypt to their plaintext.
C7_CachedReused ==
  [][(_fernet_instance # None /\ (last'.op # "none" \/ env' # env))
       => /\ _fernet_instance' = _fernet_instance
          /\ nbuilt' = nbuilt
          /\ last'.op # "none"
               => (last'.cached /\ ~last'.readEnv /\ ~last'.ctor
                     /\ ~KeyFailure(last'.out))
          /\ \A i \in 1..Len(issued) :
               (last'.op = "decrypt" /\ last'.arg = StrVal(issued[i].token)
                  /\ issued[i].key = _fernet_instance.v)
               => last'.out = Return(StrVal(issued[i].pt))]_vars

C7_Witness ==
  \E i \in 1..Len(issued) :
    /\ DecryptOfIssued(i)
    /\ last.cached
    /\ env = StrVal(NotBase64Key)
    /\ last.out = Return(StrVal(issued[i].pt))

\* the errors of the taxonomy as the program raises them, and the member of
\* the taxonomy each one is
TaxonomyErrors ==
  {EncryptTypeError, DecryptTypeError, KeyNotSetError,
   InvalidKeyError(FernetKeyDetail), InvalidKeyError(SurrogateDetail),
   CannotDecryptError}
Taxon(o) ==
  IF o.site \in {32, 40} THEN "InvalidInputKind"
  ELSE IF o.site = 19 THEN "MissingMasterKey"
  ELSE IF o.site = 25 THEN "InvalidMasterKey"
  ELSE IF o.site = 49 THEN "TamperedOrInvalidToken"
  ELSE "none"

\* C8 (as amended): MissingMasterKey, InvalidMasterKey and
\* TamperedOrInvalidToken are all raised as ValueError and InvalidInputKind
\* as TypeError; an error of the taxonomy differs from every error of
\* another member in its exception type or its message, so the four are
\* pairwise distinguishable by type and message together.
C8_DistinctByMessage ==
  /\ Taxon(last.out) # "none" => last.out \in TaxonomyErrors
  /\ Taxon(last.out) = "InvalidInputKind" <=> last.out.kind = "TypeError"
  /\ Taxon(last.out) \in {"MissingMasterKey", "InvalidMasterKey", "TamperedOrInvalidToken"}
       => last.out.kind = "ValueError"
  /\ \A e \in TaxonomyErrors :
       (last.out \in TaxonomyErrors /\ Taxon(e) # Taxon(last.out))
       => <<e.kind, e.msg>> # <<last.out.kind, last.out.msg>>

\* C8 as stated: the error of a token that fails authentication differs in
\* kind from both configuration errors
C8_DistinctByKind ==
  Taxon(last.out) = "TamperedOrInvalidToken"
  => /\ last.out.kind # KeyNotSetError.kind
     /\ last.out.kind # InvalidKeyError(FernetKeyDetail).kind

C8_Witness ==
  /\ Taxon(last.out) = "TamperedOrInvalidToken"
  /\ last.out.kind = "ValueError"
  /\ failed

OneCharReplaced(t, u) ==
  /\ Len(t) = Len(u)
  /\ Cardinality({p \in 1..Len(t) : t[p] # u[p]}) = 1
\* the call recorded in last decrypted token i with one character replaced,
\* with the instance that made the token
TamperedCall(i) ==
  /\ last.op = "decrypt" /\ IsText(last.arg)
  /\ OneCharReplaced(issued[i].token, last.arg.v)
  /\ _fernet_instance # None
  /\ _fernet_instance.v = issued[i].key
\* both texts are base64 for the same bytes
SameTokenBytes(t, u) ==
  /\ WellFormedText(u)
  /\ B64Decode(StrEncode(t).v) = B64Decode(StrEncode(u).v)

\* C2 (as amended): decrypt of a token with one character replaced never
\* returns a plaintext other than the original.  It fails with
\* TamperedOrInvalidToken whenever the replacement changes the bytes the
\* token decodes to; it fails with UnicodeEncodeError when the replacement
\* is a lone surrogate; it returns the original plaintext when the changed
\* text still decodes to the same bytes.
C2_TamperNeverWrongPlaintext ==
  \A i \in 1..Len(issued) :
    TamperedCall(i)
    => IF ~WellFormedText(last.arg.v)
         THEN last.out.kind = "UnicodeEncodeError" /\ last.out.site = 44
       ELSE IF SameTokenBytes(issued[i].token, last.arg.v)
         THEN last.out = Return(StrVal(issued[i].pt))
       ELSE TamperedOrInvalidToken(last.out)

\* C2 as stated: every replacement fails with TamperedOrInvalidToken
C2_EveryReplacementFails ==
  \A i \in 1..Len(issued) :
    TamperedCall(i) => TamperedOrInvalidToken(last.out)

C2_Witness ==
  \E i \in 1..Len(issued) :
    /\ TamperedCall(i)
    /\ issued[i].token[1] # last.arg.v[1]
    /\ issued[i].pt = <<233>>
    /\ TamperedOrInvalidToken(last.out)

\* C6: when threads make their first call at the same time, at most one
\* Fernet object is ever constructed and every thread returns from
\* _get_fernet with the same object.
C6_OneInstance ==
  /\ nbuilt <= 1
  /\ \A t, u \in Threads :
       (pc[t] = "done" /\ pc[u] = "done") => tinst[t] = tinst[u]

=============================================================================
